---------------------------- MODULE Spec2Model ----------------------------
(***************************************************************************)
(* L1 soundness checkpoint generator (src/app.py): one run of main().      *)
(*                                                                         *)
(* The process parses its command line, validates --blocks/--step,         *)
(* connects to a node, reads the tip, samples block numbers from the tip   *)
(* downwards, fetches each sampled header and folds it into a Keccak-256   *)
(* hash chain, then prints the result.  The node is the environment: every *)
(* call to it may fail, its tip may advance at any time, and the header    *)
(* roots it returns are its own choice.                                    *)
(*                                                                         *)
(* Not modelled: wall-clock values (timestamps, latency, elapsedSec) and   *)
(* the RPC URL text; no claim reads them.                                  *)
(***************************************************************************)
EXTENDS Integers, Sequences, FiniteSets

(***************************************************************************)
(* Bounds of the model.                                                    *)
(***************************************************************************)
\* highest tip height the node reaches
MaxTip == 4
\* --blocks values on the command line range over -1..MaxBlocksArg
MaxBlocksArg == 3
\* --step values on the command line range over -1..MaxStepArg
MaxStepArg == 2
\* bytes per header root (32 on a real chain)
RootLen == 1

(***************************************************************************)
(* Program constants.                                                      *)
(***************************************************************************)
DEFAULT_BLOCKS == 128
DEFAULT_STEP == 4
LargeWindow == 200000
ProgressEvery == 25

Max(a, b) == IF a >= b THEN a ELSE b

(***************************************************************************)
(* Text encodings.  Text is a sequence of one-character strings.           *)
(***************************************************************************)
HexChars ==
  <<"0", "1", "2", "3", "4", "5", "6", "7", "8", "9", "a", "b", "c", "d", "e", "f">>

DigitChar(d) == HexChars[d + 1]

RECURSIVE Digits(_)
Digits(n) ==
  IF n < 10 THEN <<DigitChar(n)>>
  ELSE Digits(n \div 10) \o <<DigitChar(n % 10)>>

\* str(n) of a Python int, as the f-string of line 61 formats blk.number
Decimal(n) == IF n < 0 THEN <<"-">> \o Digits(0 - n) ELSE Digits(n)

IsDigit(c) == \E d \in 0..9 : DigitChar(d) = c

DigitVal(c) == CHOOSE d \in 0..9 : DigitChar(d) = c

RECURSIVE DigitsValue(_)
DigitsValue(s) ==
  IF Len(s) = 0 THEN 0
  ELSE 10 * DigitsValue(SubSeq(s, 1, Len(s) - 1)) + DigitVal(s[Len(s)])

AllDigits(s) == Len(s) > 0 /\ \A k \in 1..Len(s) : IsDigit(s[k])

\* int(token) as argparse applies it (type=int): an optional sign, then
\* decimal digits; anything else is a ValueError, reported as ok = FALSE
ParseInt(tok) ==
  IF AllDigits(tok) THEN [ok |-> TRUE, val |-> DigitsValue(tok)]
  ELSE IF Len(tok) > 1 /\ tok[1] = "-" /\ AllDigits(Tail(tok))
    THEN [ok |-> TRUE, val |-> 0 - DigitsValue(Tail(tok))]
  ELSE IF Len(tok) > 1 /\ tok[1] = "+" /\ AllDigits(Tail(tok))
    THEN [ok |-> TRUE, val |-> DigitsValue(Tail(tok))]
  ELSE [ok |-> FALSE, val |-> 0]

HexByte(b) == <<HexChars[(b \div 16) + 1], HexChars[(b % 16) + 1]>>

\* bytes.hex(): two lowercase hex digits per byte, no prefix
RECURSIVE Hex(_)
Hex(bytes) ==
  IF Len(bytes) = 0 THEN <<>> ELSE HexByte(Head(bytes)) \o Hex(Tail(bytes))

(***************************************************************************)
(* Keccak-256, idealised as collision-free.  A digest stands for the one   *)
(* chain of payloads that produces it: the 32 zero bytes are the empty     *)
(* chain, and hashing a digest followed by a payload extends the chain.    *)
(* Two digests are equal exactly when their chains are.                    *)
(***************************************************************************)
ZeroTranscript == <<>>

Keccak(prefix, payload) == Append(prefix, payload)

\* transcript.hex() of the final digest
DigestHex(t) == [hex |-> t]

(***************************************************************************)
(* The node.                                                               *)
(***************************************************************************)
ChainIds == {1, 5}

NETWORKS == {1, 11155111, 10, 137, 42161}

network_name(cid) ==
  IF cid \in NETWORKS THEN [known |-> TRUE, cid |-> cid]
  ELSE [known |-> FALSE, cid |-> cid]

RootOf(b) == [k \in 1..RootLen |-> b]

\* the header roots a node may answer with: all three equal, or all distinct
RootTriples == {<<10, 10, 10>>, <<10, 177, 255>>}

\* the blocks eth_getBlockByNumber(n) may return
Headers(n) ==
  { [number |-> n, stateRoot |-> RootOf(r[1]), receiptsRoot |-> RootOf(r[2]),
     transactionsRoot |-> RootOf(r[3])] : r \in RootTriples }

(***************************************************************************)
(* The command line.  An absent option is the empty token.                 *)
(***************************************************************************)
Absent == <<>>

BlocksTokens ==
  { Decimal(n) : n \in -1..MaxBlocksArg }
    \cup {Absent, <<"x">>, Decimal(LargeWindow + 1)}

StepTokens == { Decimal(n) : n \in -1..MaxStepArg } \cup {Absent, <<"x">>}

\* -h/--help is absent, or given before or after the other options
HelpPositions == {"absent", "first", "last"}

CommandLines ==
  [help : HelpPositions, blocks : BlocksTokens, step : StepTokens, json : BOOLEAN]

VARIABLES
  argv,        \* the command line
  args,        \* the parsed Namespace
  pc,          \* where main is
  tip,         \* the node's current tip height
  netlog,      \* every call made to the node, in order
  head,        \* build_soundness_checkpoint's locals
  start,
  numbers,
  i,
  transcript,
  sampled,
  fetched,     \* the blocks get_block returned, in order
  result,      \* the dict build_soundness_checkpoint returned
  stdout,      \* lines printed to standard output
  stderr,      \* lines printed to standard error
  exitCode,    \* the process's exit status, -1 while it runs
  prev         \* failure kind and exit status of the previous run

buildVars == <<head, start, numbers, i, transcript, sampled, fetched>>

vars ==
  <<argv, args, pc, tip, netlog, head, start, numbers, i, transcript, sampled,
    fetched, result, stdout, stderr, exitCode, prev>>

NoArgs == [parsed |-> FALSE, blocks |-> 0, step |-> 0, json |-> FALSE]

NoResult ==
  [present |-> FALSE, chainId |-> 0, network |-> network_name(0), head |-> 0,
   start |-> 0, blocksRequested |-> 0, step |-> 0, sampledBlocks |-> 0,
   checkpointHex |-> DigestHex(ZeroTranscript)]

NoRun == [kind |-> "none", code |-> -1, err |-> "none"]

Call(op, where, n, ok) == [op |-> op, where |-> where, n |-> n, ok |-> ok]

ProcessStart ==
  /\ argv \in CommandLines
  /\ args = NoArgs
  /\ pc = "parse_args"
  /\ tip \in 0..MaxTip
  /\ netlog = <<>>
  /\ head = 0
  /\ start = 0
  /\ numbers = <<>>
  /\ i = 0
  /\ transcript = ZeroTranscript
  /\ sampled = 0
  /\ fetched = <<>>
  /\ result = NoResult
  /\ stdout = <<>>
  /\ stderr = <<>>
  /\ exitCode = -1

Init == ProcessStart /\ prev = NoRun

(***************************************************************************)
(* parse_args                                                              *)
(***************************************************************************)
OptionValue(tok, default) ==
  IF tok = Absent THEN [ok |-> TRUE, val |-> default] ELSE ParseInt(tok)

\* argparse handles the options left to right: -h prints the help and exits
\* with status 0, a value int() rejects prints the usage error and exits
\* with status 2
parse_args ==
  /\ pc = "parse_args"
  /\ LET b == OptionValue(argv.blocks, DEFAULT_BLOCKS)
         s == OptionValue(argv.step, DEFAULT_STEP)
     IN IF argv.help = "first" \/ (argv.help = "last" /\ b.ok /\ s.ok)
        THEN /\ stdout' = Append(stdout, "help")
             /\ pc' = "exit"
             /\ exitCode' = 0
             /\ UNCHANGED <<args, stderr>>
        ELSE IF ~b.ok \/ ~s.ok
        THEN /\ stderr' = Append(stderr, "usage_error")
             /\ pc' = "exit"
             /\ exitCode' = 2
             /\ UNCHANGED <<args, stdout>>
        ELSE /\ args' = [parsed |-> TRUE, blocks |-> b.val, step |-> s.val,
                         json |-> argv.json]
             /\ pc' = "validate"
             /\ UNCHANGED <<stdout, stderr, exitCode>>
  /\ UNCHANGED <<argv, tip, netlog, buildVars, result, prev>>

(***************************************************************************)
(* main, lines 117-126                                                     *)
(***************************************************************************)
\* a faulty variant: the check of line 119 with < for <=
InvalidParamsStrict(a) == a.blocks < 0 \/ a.step < 0

InvalidParams(a) == a.blocks <= 0 \/ a.step <= 0

Validate ==
  /\ pc = "validate"
  /\ IF InvalidParams(args)
     THEN /\ stdout' = Append(stdout, "run_started")
          /\ stderr' = Append(stderr, "invalid_params")
          /\ pc' = "exit"
          /\ exitCode' = 1
     ELSE /\ stdout' = stdout \o <<"run_started", "using_rpc">>
          /\ stderr' = IF args.blocks > LargeWindow
                       THEN Append(stderr, "large_window_warning")
                       ELSE stderr
          /\ pc' = "connect"
          /\ UNCHANGED exitCode
  /\ UNCHANGED <<argv, args, tip, netlog, buildVars, result, prev>>

(***************************************************************************)
(* connect                                                                 *)
(***************************************************************************)
\* a faulty variant: an uncaught exception ends the process with status 2
UncaughtStatusTwo ==
  /\ stderr' = Append(stderr, "traceback")
  /\ pc' = "exit"
  /\ exitCode' = 2

\* an exception nobody catches: the interpreter prints the traceback and
\* the process exits with status 1
Uncaught ==
  /\ stderr' = Append(stderr, "traceback")
  /\ pc' = "exit"
  /\ exitCode' = 1

ConnectIsConnected ==
  /\ pc = "connect"
  /\ \E ok \in BOOLEAN :
       /\ netlog' = Append(netlog, Call("is_connected", "connect", -1, ok))
       /\ IF ok
          THEN /\ pc' = "connect_chain_id"
               /\ UNCHANGED <<stderr, exitCode>>
          ELSE /\ stderr' = Append(stderr, "connect_failed")
               /\ pc' = "exit"
               /\ exitCode' = 1
  /\ UNCHANGED <<argv, args, tip, buildVars, result, stdout, prev>>

ConnectChainId ==
  /\ pc = "connect_chain_id"
  /\ \E ok \in BOOLEAN :
       /\ netlog' = Append(netlog, Call("chain_id", "connect", -1, ok))
       /\ IF ok
          THEN /\ pc' = "connect_block_number"
               /\ UNCHANGED <<stderr, exitCode>>
          ELSE Uncaught
  /\ UNCHANGED <<argv, args, tip, buildVars, result, stdout, prev>>

ConnectBlockNumber ==
  /\ pc = "connect_block_number"
  /\ \E ok \in BOOLEAN :
       /\ netlog' = Append(netlog, Call("block_number", "connect", -1, ok))
       /\ IF ok
          THEN /\ stdout' = stdout \o <<"connected", "rpc_latency">>
               /\ pc' = "build"
               /\ UNCHANGED <<stderr, exitCode>>
          ELSE /\ Uncaught
               /\ UNCHANGED stdout
  /\ UNCHANGED <<argv, args, tip, buildVars, result, prev>>

(***************************************************************************)
(* build_soundness_checkpoint                                              *)
(***************************************************************************)
\* the line main's handler prints for exception e: one format, the
\* exception's own text after it
BuildFailedLine(e) ==
  IF e = "rpc_error" THEN "build_failed: rpc_error"
  ELSE "build_failed: no_blocks_selected"

\* a faulty variant: the handler of lines 131-133 exiting with status 1
BuildFailedStatusOne(e) ==
  /\ stderr' = Append(stderr, BuildFailedLine(e))
  /\ pc' = "exit"
  /\ exitCode' = 1

\* main's handler, lines 131-133: any Exception e out of the build
BuildFailed(e) ==
  /\ stderr' = Append(stderr, BuildFailedLine(e))
  /\ pc' = "exit"
  /\ exitCode' = 2

WindowStart(h, blocks) == Max(0, h - blocks + 1)

\* list(range(from, stop, -step)) for step >= 1: from, from - step, ...
\* while the value is greater than stop
RECURSIVE RangeDown(_, _, _)
RangeDown(from, stop, step) ==
  IF from > stop THEN <<from>> \o RangeDown(from - step, stop, step) ELSE <<>>

\* a faulty variant: range(head, start, -step), which stops short of start
SampleNumbersExclusive(h, st, step) == RangeDown(h, st, step)

SampleNumbers(h, st, step) == RangeDown(h, st - 1, step)

BuildSample ==
  /\ pc = "build"
  /\ \/ /\ netlog' = Append(netlog, Call("block_number", "build", -1, FALSE))
        /\ BuildFailed("rpc_error")
        /\ UNCHANGED <<buildVars, stdout>>
     \/ /\ netlog' = Append(netlog, Call("block_number", "build", -1, TRUE))
        /\ head' = tip
        /\ start' = WindowStart(tip, args.blocks)
        /\ numbers' = SampleNumbers(tip, WindowStart(tip, args.blocks), args.step)
        /\ IF numbers' = <<>>
           THEN /\ BuildFailed("no_blocks_selected")
                /\ UNCHANGED <<i, transcript, sampled, fetched, stdout>>
           ELSE /\ transcript' = ZeroTranscript
                /\ sampled' = 0
                /\ i' = 1
                /\ stdout' = Append(stdout, "building")
                /\ pc' = "loop"
                /\ UNCHANGED <<fetched, stderr, exitCode>>
  /\ UNCHANGED <<argv, args, tip, result, prev>>

\* a faulty variant: the receipts and transactions roots in the other order
PayloadRootsSwapped(blk) ==
  Decimal(blk.number) \o <<"|">> \o Hex(blk.stateRoot) \o <<"|">>
    \o Hex(blk.transactionsRoot) \o <<"|">> \o Hex(blk.receiptsRoot)

\* a faulty variant: the payload without the block number
PayloadWithoutNumber(blk) ==
  Hex(blk.stateRoot) \o <<"|">> \o Hex(blk.receiptsRoot) \o <<"|">>
    \o Hex(blk.transactionsRoot)

\* line 61
Payload(blk) ==
  Decimal(blk.number) \o <<"|">> \o Hex(blk.stateRoot) \o <<"|">>
    \o Hex(blk.receiptsRoot) \o <<"|">> \o Hex(blk.transactionsRoot)

\* lines 61-62
FoldStep(t, blk) == Keccak(t, Payload(blk))

\* lines 50-62 as a function of the fetched blocks
RECURSIVE Accumulate(_)
Accumulate(blks) ==
  IF Len(blks) = 0 THEN ZeroTranscript
  ELSE FoldStep(Accumulate(SubSeq(blks, 1, Len(blks) - 1)), blks[Len(blks)])

\* a faulty variant: a loop that leaves out the last element
HasNextShort(k, nums) == k < Len(nums)

\* the for loop has another element to visit
HasNext(k, nums) == k <= Len(nums)

\* line 65
ProgressDue(k, nums) == k % ProgressEvery = 0 \/ k = Len(nums)

LoopFetchOk ==
  /\ pc = "loop"
  /\ HasNext(i, numbers)
  /\ \E blk \in Headers(numbers[i]) :
       /\ netlog' = Append(netlog, Call("get_block", "build", numbers[i], TRUE))
       /\ fetched' = Append(fetched, blk)
       /\ transcript' = FoldStep(transcript, blk)
  /\ sampled' = sampled + 1
  /\ stdout' = IF ProgressDue(i, numbers) THEN Append(stdout, "progress") ELSE stdout
  /\ i' = i + 1
  /\ UNCHANGED <<argv, args, pc, tip, head, start, numbers, result, stderr,
                 exitCode, prev>>

\* a faulty variant: a failed fetch is swallowed and the block skipped
LoopFetchFailSkips ==
  /\ pc = "loop"
  /\ HasNext(i, numbers)
  /\ netlog' = Append(netlog, Call("get_block", "build", numbers[i], FALSE))
  /\ i' = i + 1
  /\ UNCHANGED <<argv, args, pc, tip, head, start, numbers, transcript, sampled,
                 fetched, result, stdout, stderr, exitCode, prev>>

LoopFetchFail ==
  /\ pc = "loop"
  /\ HasNext(i, numbers)
  /\ netlog' = Append(netlog, Call("get_block", "build", numbers[i], FALSE))
  /\ BuildFailed("rpc_error")
  /\ UNCHANGED <<argv, args, tip, buildVars, result, stdout, prev>>

\* a faulty variant: the tip read again when the result is assembled
ResultHeadReread == tip

\* the value line 74 stores as the result's head
ResultHead == head

BuildReturn ==
  /\ pc = "loop"
  /\ ~HasNext(i, numbers)
  /\ \/ /\ netlog' = Append(netlog, Call("chain_id", "build", -1, FALSE))
        /\ BuildFailed("rpc_error")
        /\ UNCHANGED result
     \/ \E cid \in ChainIds :
          /\ netlog' = Append(netlog, Call("chain_id", "build", -1, TRUE))
          /\ result' = [present |-> TRUE, chainId |-> cid,
                        network |-> network_name(cid), head |-> ResultHead,
                        start |-> start, blocksRequested |-> args.blocks,
                        step |-> args.step, sampledBlocks |-> sampled,
                        checkpointHex |-> DigestHex(transcript)]
          /\ pc' = "output"
          /\ UNCHANGED <<stderr, exitCode>>
  /\ UNCHANGED <<argv, args, tip, buildVars, stdout, prev>>

(***************************************************************************)
(* main, lines 135-166                                                     *)
(***************************************************************************)
HumanReport ==
  <<"blank", "network", "window", "sampled", "blank", "checkpoint_title",
    "checkpoint_hex", "blank", "info_roots", "info_usage", "completed">>

Output ==
  /\ pc = "output"
  /\ stdout' = IF args.json THEN Append(stdout, "json") ELSE stdout \o HumanReport
  /\ pc' = "exit"
  /\ exitCode' = 0
  /\ UNCHANGED <<argv, args, tip, netlog, buildVars, result, stderr, prev>>

(***************************************************************************)
(* The chain grows while the process runs.                                 *)
(***************************************************************************)
TipAdvance ==
  /\ pc # "exit"
  /\ tip < MaxTip
  /\ tip' = tip + 1
  /\ UNCHANGED <<argv, args, pc, netlog, buildVars, result, stdout, stderr,
                 exitCode, prev>>

\* one step of the process itself
MainStep ==
  \/ parse_args
  \/ Validate
  \/ ConnectIsConnected
  \/ ConnectChainId
  \/ ConnectBlockNumber
  \/ BuildSample
  \/ LoopFetchOk
  \/ LoopFetchFail
  \/ BuildReturn
  \/ Output

Next == MainStep \/ TipAdvance

Spec == Init /\ [][Next]_vars

\* a running process keeps taking steps: every call to the node returns or
\* raises (the HTTP provider's timeout, line 29)
FairSpec == Spec /\ WF_vars(MainStep)

(***************************************************************************)
(* State functions the properties read.                                    *)
(***************************************************************************)
Last(s) == s[Len(s)]

LastCallFailed == netlog # <<>> /\ ~Last(netlog).ok

\* the parsed --blocks or --step is not positive
BadWindow == args.parsed /\ (args.blocks <= 0 \/ args.step <= 0)

\* the positions of netlog that are header fetches
FetchCalls == { k \in DOMAIN netlog : netlog[k].op = "get_block" }

\* lines of standard output that carry a commitment
CommitmentLines == {"json", "checkpoint_hex"}

CommitmentPrinted == \E k \in DOMAIN stdout : stdout[k] \in CommitmentLines

\* the sampler on its own: the numbers a build samples from tip h
SampleOf(h, blocks, step) == SampleNumbers(h, WindowStart(h, blocks), step)

\* the build has sampled: numbers, head and start are set
Sampled == pc \in {"loop", "output"} \/ result.present

(***************************************************************************)
(* C1.  For head >= 0, blocks >= 1, step >= 1 the sampled numbers are      *)
(* exactly head, head - step, head - 2*step, ... down to the last such     *)
(* value that is >= start = max(0, head - blocks + 1): non-empty, first    *)
(* element head, consecutive elements step apart, all >= start, and the    *)
(* next value below the last one is < start.  sample(100, 21, 4) and       *)
(* sample(5, 100, 1) are the two lists the specification gives.            *)
(***************************************************************************)
SamplerCorrect ==
  /\ SampleOf(100, 21, 4) = <<100, 96, 92, 88, 84, 80>>
  /\ SampleOf(5, 100, 1) = <<5, 4, 3, 2, 1, 0>>
  /\ Sampled =>
       /\ head >= 0 /\ args.blocks >= 1 /\ args.step >= 1
       /\ start = Max(0, head - args.blocks + 1)
       /\ Len(numbers) >= 1
       /\ numbers = [k \in 1..Len(numbers) |-> head - (k - 1) * args.step]
       /\ Last(numbers) >= start
       /\ Last(numbers) - args.step < start

\* a window that is not clamped at zero, sampled with a stride, whose last
\* element is the window's start itself
SamplerWitness ==
  /\ pc = "loop"
  /\ Len(numbers) >= 2
  /\ args.step >= 2
  /\ start > 0
  /\ Last(numbers) = start

(***************************************************************************)
(* C2.  The commitment of a returned result is the left fold, from the     *)
(* 32 zero bytes, of transcript := Keccak(transcript ++ payload(n)) over   *)
(* the sampled numbers in the sampler's order, payload(n) being decimal n, *)
(* state root, receipts root, transactions root of block n joined by '|';  *)
(* the numbers are the sampler's for (head, blocks, step), and for a       *)
(* one-block window the commitment is Keccak(0^32 ++ payload(head)).       *)
(***************************************************************************)
ClaimedPayload(k) ==
  Decimal(numbers[k]) \o <<"|">> \o Hex(fetched[k].stateRoot) \o <<"|">>
    \o Hex(fetched[k].receiptsRoot) \o <<"|">> \o Hex(fetched[k].transactionsRoot)

RECURSIVE ClaimedFold(_)
ClaimedFold(k) ==
  IF k = 0 THEN ZeroTranscript ELSE Keccak(ClaimedFold(k - 1), ClaimedPayload(k))

InvalidRejectedBeforeNetwork ==
  BadWindow =>
    /\ netlog = <<>>
    /\ pc \in {"validate", "exit"}
    /\ pc = "validate" => ENABLED Validate
    /\ pc = "exit" => exitCode = 1 /\ stderr = <<"invalid_params">>
                      /\ ~result.present

\* a run with --blocks 0 and a positive step that has been rejected
InvalidRejectedWitness ==
  /\ pc = "exit"
  /\ args.parsed
  /\ args.blocks = 0
  /\ args.step > 0
  /\ exitCode = 1

(***************************************************************************)
(* C4.  When the header fetch of the k-th sampled block fails the build    *)
(* aborts there: the failed fetch is the last call made to the node (no    *)
(* later fetch, no second fetch of that block), the blocks folded are      *)
(* exactly the k-1 before it, no result object exists, no commitment has   *)
(* been printed, and the process exits with status 2.                      *)
(***************************************************************************)
FetchFailureAborts ==
  \A k \in FetchCalls :
    ~netlog[k].ok =>
      /\ k = Len(netlog)
      /\ \A j \in FetchCalls : j # k => netlog[j].n # netlog[k].n
      /\ netlog[k].n = numbers[Len(fetched) + 1]
      /\ \A j \in 1..Len(fetched) : fetched[j].number = numbers[j]
      /\ sampled = Len(fetched)
      /\ ~result.present
      /\ ~CommitmentPrinted
      /\ pc = "exit"
      /\ exitCode = 2

\* the fetch of the third sampled block of five failed
FetchFailureWitness ==
  /\ LastCallFailed
  /\ Last(netlog).op = "get_block"
  /\ Len(fetched) = 2
  /\ Len(numbers) = 5

(***************************************************************************)
(* C5.  In every returned result sampledBlocks is the length of the        *)
(* sampled sequence, the number of header fetches made and the number of   *)
(* hash steps applied to the transcript.                                   *)
(***************************************************************************)
SampledCountConsistent ==
  result.present =>
    /\ result.sampledBlocks = Len(numbers)
    /\ result.sampledBlocks = Cardinality(FetchCalls)
    /\ result.sampledBlocks = Len(result.checkpointHex.hex)

\* a result over at least three sampled blocks
SampledCountWitness == result.present /\ result.sampledBlocks >= 3

(***************************************************************************)
(* How a run ended, read off the command line and the calls made.          *)
(***************************************************************************)
BlocksOption == OptionValue(argv.blocks, DEFAULT_BLOCKS)

StepOption == OptionValue(argv.step, DEFAULT_STEP)

\* argparse printed the help: -h came first, or last after valid options
HelpRequested ==
  argv.help = "first" \/ (argv.help = "last" /\ BlocksOption.ok /\ StepOption.ok)

\* argparse rejected the command line: an option value that is no integer
UsageRejected == ~HelpRequested /\ (~BlocksOption.ok \/ ~StepOption.ok)

\* the connection to the node failed: a call made by connect failed
ConnectFailed == LastCallFailed /\ Last(netlog).where = "connect"

\* the build read the tip and selected no block
EmptySelected ==
  /\ netlog # <<>>
  /\ Last(netlog) = Call("block_number", "build", -1, TRUE)
  /\ numbers = <<>>

\* build_soundness_checkpoint raised
BuildRaised == (LastCallFailed /\ Last(netlog).where = "build") \/ EmptySelected

ResultPrinted == result.present /\ CommitmentPrinted

(***************************************************************************)
(* C6, as claimed.  A run ends with exit status 1 exactly when validation  *)
(* or the connection failed, 2 exactly when the build failed, 0 exactly    *)
(* when a result was produced and printed.                                 *)
(***************************************************************************)
ExitCodesAsClaimed ==
  pc = "exit" =>
    /\ exitCode \in {0, 1, 2}
    /\ exitCode = 1 <=> (BadWindow \/ ConnectFailed)
    /\ exitCode = 2 <=> BuildRaised
    /\ exitCode = 0 <=> ResultPrinted

(***************************************************************************)
(* C6, amended.  Every run ends, and it ends with exit status 1 exactly     *)
(* when validation or the connection failed, 2 exactly when the build      *)
(* failed or the argument parser rejected the command line, 0 exactly when *)
(* a result was produced and printed or the help was requested.            *)
(***************************************************************************)
ExitClassification ==
  /\ pc # "exit" => exitCode = -1
  /\ pc = "exit" =>
       /\ exitCode \in {0, 1, 2}
       /\ exitCode = 1 <=> (BadWindow \/ ConnectFailed)
       /\ exitCode = 2 <=> (BuildRaised \/ UsageRejected)
       /\ exitCode = 0 <=> (ResultPrinted \/ HelpRequested)

ExitCodesWithArgparse == []ExitClassification /\ <>(pc = "exit")

\* a run the argument parser ended: --blocks x, exit status 2, no build
UsageErrorWitness ==
  /\ pc = "exit"
  /\ exitCode = 2
  /\ ~args.parsed
  /\ netlog = <<>>

(***************************************************************************)
(* The four failure kinds of the specification, and what the caller of the *)
(* process observes of a failure: the exit status and the message on       *)
(* standard error.  A node that cannot be reached is a ConnectionError     *)
(* whichever of is_connected, chain_id, block_number it strikes; a failed  *)
(* get_block is a HeaderFetchError.                                        *)
(***************************************************************************)
FourKinds ==
  {"ConnectionError", "InvalidParameters", "EmptySelection", "HeaderFetchError"}

FailureKind ==
  IF pc # "exit" THEN "none"
  ELSE IF BadWindow THEN "InvalidParameters"
  ELSE IF EmptySelected THEN "EmptySelection"
  ELSE IF LastCallFailed /\ Last(netlog).op = "get_block" THEN "HeaderFetchError"
  ELSE IF LastCallFailed THEN "ConnectionError"
  ELSE "none"

Outcome == [code |-> exitCode, err |-> IF stderr = <<>> THEN "none" ELSE Last(stderr)]

\* the process is run again; the failure of the run that ended is remembered
Restart ==
  /\ pc = "exit"
  /\ prev = NoRun
  /\ FailureKind \in FourKinds
  /\ prev' = [kind |-> FailureKind, code |-> Outcome.code, err |-> Outcome.err]
  /\ argv' \in CommandLines
  /\ args' = NoArgs
  /\ pc' = "parse_args"
  /\ tip' \in 0..MaxTip
  /\ netlog' = <<>>
  /\ head' = 0
  /\ start' = 0
  /\ numbers' = <<>>
  /\ i' = 0
  /\ transcript' = ZeroTranscript
  /\ sampled' = 0
  /\ fetched' = <<>>
  /\ result' = NoResult
  /\ stdout' = <<>>
  /\ stderr' = <<>>
  /\ exitCode' = -1

NextRuns == Next \/ Restart

\* two runs of the process, one after the other
SpecRuns == Init /\ [][NextRuns]_vars

JsonOnlyOnStdout ==
  (pc = "exit" /\ args.parsed /\ args.json /\ result.present) => stdout = <<"json">>

(***************************************************************************)
(* C9.  Folding the fetched blocks of a build in reversed order gives a    *)
(* commitment different from the build's, whenever at least two blocks     *)
(* were sampled, even when all their roots are equal; so do the two-block  *)
(* sequences [10, 6] and [6, 10].                                          *)
(***************************************************************************)
Reverse(s) == [k \in 1..Len(s) |-> s[Len(s) + 1 - k]]

OrderSensitive ==
  /\ \A a \in Headers(10), b \in Headers(6) :
       Accumulate(<<a, b>>) # Accumulate(<<b, a>>)
  /\ (result.present /\ Len(fetched) >= 2) =>
       /\ result.checkpointHex = DigestHex(Accumulate(fetched))
       /\ DigestHex(Accumulate(Reverse(fetched))) # result.checkpointHex

\* a result over at least two blocks that all carry the same roots
OrderSensitiveWitness ==
  /\ result.present
  /\ Len(fetched) >= 2
  /\ \A j \in 1..Len(fetched) :
       /\ fetched[j].stateRoot = fetched[1].stateRoot
       /\ fetched[j].receiptsRoot = fetched[1].stateRoot
       /\ fetched[j].transactionsRoot = fetched[1].stateRoot

(***************************************************************************)
(* C10.  A build reads the tip exactly once and its result is consistent   *)
(* with that read, whatever the tip does meanwhile: head is the first      *)
(* block fetched, start is max(0, head - blocksRequested + 1), and every   *)
(* block fetched lies in start..head.                                      *)
(***************************************************************************)
BuildTipReads ==
  { k \in DOMAIN netlog : netlog[k].op = "block_number" /\ netlog[k].where = "build" }

ResultSelfConsistent ==
  result.present =>
    /\ Cardinality(BuildTipReads) = 1
    /\ FetchCalls # {}
    /\ \A k \in FetchCalls :
         /\ (\A j \in FetchCalls : k <= j) => netlog[k].n = result.head
         /\ netlog[k].n >= result.start
         /\ netlog[k].n <= result.head
    /\ fetched[1].number = result.head
    /\ result.start = Max(0, result.head - result.blocksRequested + 1)

\* a result whose head is below the node's tip: the chain grew after the
\* build read the tip
TipAdvancedWitness ==
  /\ result.present
  /\ tip > result.head
  /\ Len(fetched) >= 2

==========================================================================
